---- MODULE Spec2Model ----
(***************************************************************************)
(* netnet: the airodump-ng dump parser, the organization lookup, the       *)
(* refresh goroutines and the two query handlers of the latest version of  *)
(* the program (src/unnamed/part_001).                                      *)
(*                                                                         *)
(* Go strings that the code slices or rewrites character by character      *)
(* (the hardware address, column 0) are sequences of one-character         *)
(* strings.  Every other column is a TLA+ string; strconv.Atoi,            *)
(* strings.TrimSpace and time.ParseInLocation are tables over the literals *)
(* the model's dumps use, with the error result for everything else.       *)
(* Times are seconds since the epoch, read in a local zone equal to UTC.   *)
(* A Go slice of length 0 is always the nil slice in this program (a slice *)
(* is only ever built by append from nil), so <<>> stands for nil.         *)
(***************************************************************************)
EXTENDS Integers, Sequences, FiniteSets, TLC

\* ------------------------------------------------------------------ bounds
\* Longest access-point section (data rows) and client section of a dump
\* handed to the parser.
MaxRows == 3
\* Number of times the capture tool rewrites the dump file.
MaxVersions == 2

\* --------------------------------------------------------------- constants
\* time.Minute, in seconds.
Minute == 60
\* lastParam = "60" when the query carries no "last" parameter.
DefaultLast == "60"
\* The zero time.Time (January 1, year 1): an instant before every instant
\* of the model.
ZeroTime == -100000

\* ------------------------------------------------------------ Go's library
HexDigits ==
  [c \in {"0","1","2","3","4","5","6","7","8","9"} |->
      CASE c = "0" -> 0 [] c = "1" -> 1 [] c = "2" -> 2 [] c = "3" -> 3
        [] c = "4" -> 4 [] c = "5" -> 5 [] c = "6" -> 6 [] c = "7" -> 7
        [] c = "8" -> 8 [] c = "9" -> 9]
  @@ [c \in {"A","B","C","D","E","F"} |->
      CASE c = "A" -> 10 [] c = "B" -> 11 [] c = "C" -> 12
        [] c = "D" -> 13 [] c = "E" -> 14 [] c = "F" -> 15]
  @@ [c \in {"a","b","c","d","e","f"} |->
      CASE c = "a" -> 10 [] c = "b" -> 11 [] c = "c" -> 12
        [] c = "d" -> 13 [] c = "e" -> 14 [] c = "f" -> 15]

RECURSIVE HexValue(_, _)
\* The value of the hex digits s, most significant first, after acc.
HexValue(s, acc) ==
  IF s = <<>> THEN acc ELSE HexValue(Tail(s), acc * 16 + HexDigits[Head(s)])

\* strconv.ParseInt(s, 16, 32) for s of at most 7 characters (no range
\* error): an optional sign, then one or more hex digits; on a syntax error
\* the value is 0.
ParseInt16(s) ==
  LET signed == s # <<>> /\ Head(s) \in {"+", "-"}
      digits == IF signed THEN Tail(s) ELSE s
      ok     == digits # <<>> /\ \A i \in 1..Len(digits) : digits[i] \in DOMAIN HexDigits
      mag    == IF ok THEN HexValue(digits, 0) ELSE 0
  IN  [err |-> ~ok,
       val |-> IF signed /\ Head(s) = "-" THEN 0 - mag ELSE mag]

\* strings.ReplaceAll(s, ":", "-") on a character sequence.
ReplaceColons(s) == [i \in 1..Len(s) |-> IF s[i] = ":" THEN "-" ELSE s[i]]

\* strings.TrimSpace: the literals of the model that carry white space.
TrimSpaceTable ==
  ("-40 " :> "-40") @@ ("12 " :> "12") @@ ("   " :> "")
  @@ ("Acme Corp  " :> "Acme Corp") @@ ("Local Labs " :> "Local Labs")
  @@ ("1970-01-01 01:00:00 " :> "1970-01-01 01:00:00")

TrimSpace(s) == IF s \in DOMAIN TrimSpaceTable THEN TrimSpaceTable[s] ELSE s

\* strconv.Atoi: the decimal literals of the model; anything else is a
\* syntax error with value 0.
IntLiterals ==
  ("-40" :> -40) @@ ("-70" :> -70) @@ ("12" :> 12) @@ ("6" :> 6)
  @@ ("11" :> 11) @@ ("0" :> 0) @@ ("60" :> 60) @@ ("1" :> 1) @@ ("30" :> 30)

Atoi(s) ==
  IF s \in DOMAIN IntLiterals
  THEN [err |-> FALSE, val |-> IntLiterals[s]]
  ELSE [err |-> TRUE, val |-> 0]

\* time.ParseInLocation("2006-01-02 15:04:05", s, local): the timestamps of
\* the model; anything else is an error with the zero Time.
TimeLiterals ==
  ("1970-01-01 00:10:00" :> 600) @@ ("1970-01-01 00:59:59" :> 3599)
  @@ ("1970-01-01 01:00:00" :> 3600) @@ ("1970-01-01 01:00:01" :> 3601)

ParseInLocation(s) ==
  IF s \in DOMAIN TimeLiterals
  THEN [err |-> FALSE, val |-> TimeLiterals[s]]
  ELSE [err |-> TRUE, val |-> ZeroTime]

\* A Go map read: the zero value "" for an absent key and for the nil map.
MapGet(m, k) == IF k \in DOMAIN m THEN m[k] ELSE ""

\* ------------------------------------------------------------------- state
VARIABLES
  file,          \* the dump file *csvFile: [ver, readable, marker, aps, clients]
  ouidb,         \* var ouidb map[string]string
  ciddb,         \* var ciddb map[string]string
  proc,          \* "running", or "crashed" once a panic has ended the process
  mainpc,        \* where the main goroutine stands: init, main, serve, listen
  tpc,           \* where each getData goroutine stands
  tres,          \* each getData goroutine's parse result before it is stored
  pending,       \* the words of the slice header a getData goroutine has yet to store
  apsFound,      \* var apsFound []AccessPoint: [data, len, ver]
  clientsFound,  \* var clientsFound []Client: [data, len, ver]
  resp,          \* the last response written by a handler
  call           \* the last direct call of a pure function and its result

vars == <<file, ouidb, ciddb, proc, mainpc, tpc, tres, pending,
          apsFound, clientsFound, resp, call>>

\* The two `go getData()` statements: 1 in main, 2 in serve.
Tasks == {1, 2}

\* -------------------------------------------------------------- registries
\* One pass of parseOui / parseCid over the scanned lines.  A line is
\* [hex |-> strings.Contains(line, "(hex)"), parts |-> strings.Split(line, sep)];
\* str[1] of a line that has "(hex)" but not the separator is out of range.
RECURSIVE ScanRegistry(_, _)
ScanRegistry(lines, m) ==
  IF lines = <<>> THEN [panic |-> FALSE, map |-> m]
  ELSE LET line == Head(lines) IN
       IF line.hex
       THEN IF Len(line.parts) < 2
            THEN [panic |-> TRUE, map |-> m]
            ELSE ScanRegistry(Tail(lines), (line.parts[1] :> line.parts[2]) @@ m)
       ELSE ScanRegistry(Tail(lines), m)

\* parseOui: the nil map when the file cannot be opened.
parseOui(f) ==
  IF ~f.readable THEN [panic |-> FALSE, map |-> << >>]
  ELSE ScanRegistry(f.lines, << >>)

\* parseCid: the nil map when the file cannot be opened.
parseCid(f) ==
  IF ~f.readable THEN [panic |-> FALSE, map |-> << >>]
  ELSE ScanRegistry(f.lines, << >>)

\* ------------------------------------------------------------------ parser
\* isLocalMAC testing the least significant bit (the multicast bit) instead
\* of the universal/local bit.
isLocalMAC_LowBit(MAC) ==
  IF Len(MAC) < 2 THEN [panic |-> TRUE, val |-> FALSE]
  ELSE LET first == ParseInt16(SubSeq(MAC, 1, 2)).val
       IN  [panic |-> FALSE, val |-> (first % 2) = 1]

\* isLocalMAC: MAC[:2] panics on an address of fewer than 2 characters; a
\* first byte that does not parse is reported and read as 0.
isLocalMAC(MAC) ==
  IF Len(MAC) < 2 THEN [panic |-> TRUE, val |-> FALSE]
  ELSE LET first == ParseInt16(SubSeq(MAC, 1, 2)).val
       IN  [panic |-> FALSE, val |-> ((first \div 2) % 2) = 1]

\* The AccessPoint built from a record of at least 14 columns; check() only
\* prints, so a column that does not parse leaves the zero value.
MakeAccessPoint(record) ==
  [MAC            |-> ReplaceColons(record[1]),
   FirstSeen      |-> ParseInLocation(TrimSpace(record[2])).val,
   LastSeen       |-> ParseInLocation(TrimSpace(record[3])).val,
   Channel        |-> Atoi(TrimSpace(record[4])).val,
   Speed          |-> record[5],
   Privacy        |-> record[6],
   Authentication |-> record[8],
   Power          |-> Atoi(TrimSpace(record[9])).val,
   Name           |-> record[14]]

RECURSIVE APLoop(_, _, _)
\* The loop of getAPData: record 0 is the header; a short record is skipped
\* by `continue`, which also skips i++.
APLoop(records, i, aps) ==
  IF records = <<>> THEN aps
  ELSE LET record == Head(records) IN
       IF i # 0
       THEN IF Len(record) < 14
            THEN APLoop(Tail(records), i, aps)
            ELSE APLoop(Tail(records), i + 1, Append(aps, MakeAccessPoint(record)))
       ELSE APLoop(Tail(records), i + 1, aps)

\* getAPData that takes the header for a data row.
getAPData_KeepHeader(data) == APLoop(data, 1, <<>>)

getAPData(data) == APLoop(data, 0, <<>>)

\* The organization of a client address: c.MAC[:8] panics on an address of
\* fewer than 8 characters.
Organization(MAC) ==
  LET local == isLocalMAC(MAC) IN
  IF local.panic \/ Len(MAC) < 8 THEN [panic |-> TRUE, val |-> ""]
  ELSE IF local.val
       THEN LET cid == TrimSpace(MapGet(ciddb, SubSeq(MAC, 1, 8)))
            IN  [panic |-> FALSE, val |-> IF cid # "" THEN cid ELSE "LOCAL"]
       ELSE [panic |-> FALSE, val |-> TrimSpace(MapGet(ouidb, SubSeq(MAC, 1, 8)))]

\* The Client built from a record of at least 7 columns, organization aside.
MakeClient(record, org) ==
  [MAC          |-> ReplaceColons(record[1]),
   FirstSeen    |-> ParseInLocation(TrimSpace(record[2])).val,
   LastSeen     |-> ParseInLocation(TrimSpace(record[3])).val,
   Power        |-> Atoi(TrimSpace(record[4])).val,
   Packets      |-> Atoi(TrimSpace(record[5])).val,
   BSSID        |-> record[6],
   Probes       |-> record[7],
   Organization |-> org]

RECURSIVE ClientsLoop_BreakOnShort(_, _)
\* The loop of getClientsData with `break` where the code has `continue`.
ClientsLoop_BreakOnShort(records, clients) ==
  IF records = <<>> THEN [panic |-> FALSE, clients |-> clients]
  ELSE LET record == Head(records) IN
       IF Len(record) < 7
       THEN [panic |-> FALSE, clients |-> clients]
       ELSE LET org == Organization(ReplaceColons(record[1])) IN
            IF org.panic
            THEN [panic |-> TRUE, clients |-> clients]
            ELSE ClientsLoop_BreakOnShort(Tail(records),
                             Append(clients, MakeClient(record, org.val)))

RECURSIVE ClientsLoop(_, _)
\* The loop of getClientsData.
ClientsLoop(records, clients) ==
  IF records = <<>> THEN [panic |-> FALSE, clients |-> clients]
  ELSE LET record == Head(records) IN
       IF Len(record) < 7
       THEN ClientsLoop(Tail(records), clients)
       ELSE LET org == Organization(ReplaceColons(record[1])) IN
            IF org.panic
            THEN [panic |-> TRUE, clients |-> clients]
            ELSE ClientsLoop(Tail(records),
                             Append(clients, MakeClient(record, org.val)))

getClientsData(data) == ClientsLoop(data, <<>>)

\* parseAirodumpCsv: nil, nil and the line "File not found" on standard
\* output (log) when the file cannot be read; csvdata[1] is out
\* of range when the marker line is absent (strings.Split then returns one
\* part, the whole content, which getAPData has already parsed).
parseAirodumpCsv(f) ==
  IF ~f.readable
  THEN [panic |-> FALSE, ver |-> f.ver, log |-> "File not found",
        aps |-> <<>>, clients |-> <<>>]
  ELSE LET accessPoints == getAPData(f.aps) IN
       IF ~f.marker
       THEN [panic |-> TRUE, ver |-> f.ver, log |-> "",
             aps |-> accessPoints, clients |-> <<>>]
       ELSE LET c == getClientsData(f.clients) IN
            [panic |-> c.panic, ver |-> f.ver, log |-> "",
             aps |-> accessPoints, clients |-> c.clients]

\* filterByLastSeen keeping a client last seen at the very start of the
\* window (!t.After(LastSeen) for t.Before(LastSeen)).
filterByLastSeen_Inclusive(clients, mins, now) ==
  SelectSeq(clients, LAMBDA client : now - mins * Minute <= client.LastSeen)

\* filterByLastSeen with time.Now() = now for the whole call: t.Before(LastSeen).
filterByLastSeen(clients, mins, now) ==
  SelectSeq(clients, LAMBDA client : now - mins * Minute < client.LastSeen)

\* ------------------------------------------------------------------ inputs
\* Hardware addresses as airodump-ng prints them, ":00:00:01" after the
\* three-byte prefix.
AddrRest == <<":", "0", "0", ":", "0", "0", ":", "0", "1">>
Addr(a, b, c) == a \o <<":">> \o b \o <<":">> \o c \o AddrRest
\* The registries' key of a prefix.
Prefix(a, b, c) == a \o <<"-">> \o b \o <<"-">> \o c

AddrLocal         == Addr(<<"0", "2">>, <<"0", "0">>, <<"0", "0">>)
AddrLocalKnown    == Addr(<<"0", "A">>, <<"1", "1">>, <<"2", "2">>)
AddrGlobal        == Addr(<<"0", "0">>, <<"1", "A">>, <<"2", "B">>)
AddrGlobalUnknown == Addr(<<"A", "C">>, <<"D", "E">>, <<"4", "8">>)
AddrBadHex        == Addr(<<"Z", "Z">>, <<"0", "0">>, <<"0", "0">>)
AddrShort         == <<"0", "2", ":", "0", "0">>
AddrTiny          == <<"0">>

\* oui.txt and cid.txt.  Each registry also lists a prefix of the other
\* kind, which the lookup must not find.
OuiGood ==
  [readable |-> TRUE,
   lines |-> << [hex |-> FALSE, parts |-> <<"OUI/MA-L">>],
                [hex |-> TRUE,
                 parts |-> <<Prefix(<<"0", "0">>, <<"1", "A">>, <<"2", "B">>), "Acme Corp  ">>],
                [hex |-> TRUE,
                 parts |-> <<Prefix(<<"0", "2">>, <<"0", "0">>, <<"0", "0">>), "Acme Corp  ">>] >>]
CidGood ==
  [readable |-> TRUE,
   lines |-> << [hex |-> TRUE,
                 parts |-> <<Prefix(<<"0", "A">>, <<"1", "1">>, <<"2", "2">>), "Local Labs ">>],
                [hex |-> TRUE,
                 parts |-> <<Prefix(<<"A", "C">>, <<"D", "E">>, <<"4", "8">>), "Local Labs ">>] >>]
RegistryUnreadable == [readable |-> FALSE, lines |-> <<>>]
\* A line with "(hex)" that the separator does not split.
RegistryMalformed ==
  [readable |-> TRUE,
   lines |-> << [hex |-> TRUE,
                 parts |-> <<Prefix(<<"0", "0">>, <<"1", "A">>, <<"2", "B">>)>>] >>]

OuiFiles == {OuiGood, RegistryUnreadable, RegistryMalformed}
CidFiles == {CidGood, RegistryUnreadable, RegistryMalformed}

\* Records as csv.Reader returns them (leading space trimmed, blank lines
\* dropped).
APHeader ==
  <<<<"B", "S", "S", "I", "D">>, "First time seen", "Last time seen", "channel",
    "Speed", "Privacy", "Cipher", "Authentication", "Power", "# beacons", "# IV",
    "LAN IP", "ID-length", "ESSID", "Key">>
APRow(mac, first, last, channel, power, name) ==
  <<mac, first, last, channel, "54", "WPA2", "CCMP", "PSK", power, "10", "0",
    "0.0.0.0", "4", name, "">>
CRow(mac, first, last, power, packets) ==
  <<mac, first, last, power, packets, "(not associated)", "">>

APGood1   == APRow(AddrGlobal, "1970-01-01 00:10:00", "1970-01-01 01:00:00", "6", "-40 ", "home")
APGood2   == APRow(AddrLocal, "1970-01-01 00:10:00", "1970-01-01 01:00:01", "11", "-70", "")
APShort   == <<AddrGlobal, "1970-01-01 00:10:00", "1970-01-01 01:00:00", "6">>
APBadInt  == APRow(AddrGlobal, "1970-01-01 00:10:00", "1970-01-01 01:00:00", "n/a", "-40", "home")

CGood1    == CRow(AddrLocal, "1970-01-01 00:10:00", "1970-01-01 01:00:00", "-40", "12 ")
CGood2    == CRow(AddrGlobal, "1970-01-01 00:10:00", "1970-01-01 01:00:01", "-70", "6")
CGood3    == CRow(AddrLocalKnown, "1970-01-01 00:10:00", "1970-01-01 00:59:59", "-40", "1")
CGood4    == CRow(AddrGlobalUnknown, "1970-01-01 00:10:00", "1970-01-01 01:00:00 ", "-70", "30")
CShort    == <<AddrLocal, "1970-01-01 00:10:00", "1970-01-01 01:00:00", "-40", "12">>
CBadTime  == CRow(AddrGlobal, "1970-01-01 00:10:00", "yesterday", "-70", "6")
CBadInt   == CRow(AddrLocal, "1970-01-01 00:10:00", "1970-01-01 01:00:00", "n/a", "12")
CBadHex   == CRow(AddrBadHex, "1970-01-01 00:10:00", "1970-01-01 01:00:00", "-40", "12")
CShortMac == CRow(AddrShort, "1970-01-01 00:10:00", "1970-01-01 01:00:00", "-40", "12")
CTinyMac  == CRow(AddrTiny, "1970-01-01 00:10:00", "1970-01-01 01:00:00", "-40", "12")

APRows     == {APGood1, APGood2, APShort, APBadInt}
ClientRows == {CGood1, CGood2, CGood3, CGood4, CShort, CBadTime, CBadInt,
               CBadHex, CShortMac, CTinyMac}

\* All sequences over S of length at most n.
SeqsUpTo(S, n) == UNION {[1..k -> S] : k \in 0..n}

Content(readable, marker, aps, clients) ==
  [readable |-> readable, marker |-> marker, aps |-> aps, clients |-> clients]

\* The dump files the refresh goroutines meet.
DumpA        == Content(TRUE, TRUE, <<APHeader, APGood1>>, <<CGood1>>)
DumpB        == Content(TRUE, TRUE, <<APHeader, APGood1, APGood2>>, <<CGood2, CGood3>>)
DumpGone     == Content(FALSE, FALSE, <<>>, <<>>)
DumpNoMarker == Content(TRUE, FALSE, <<APHeader, APGood1>>, <<>>)
DumpTinyMac  == Content(TRUE, TRUE, <<APHeader, APGood1>>, <<CTinyMac>>)
Dumps == {DumpA, DumpB, DumpGone, DumpNoMarker, DumpTinyMac}

FileOf(ver, content) ==
  [ver |-> ver, readable |-> content.readable, marker |-> content.marker,
   aps |-> content.aps, clients |-> content.clients]

\* Instants time.Now() returns to a handler.
Nows == {3660, 7200}
\* Values of the "last" query parameter; "" when the query has none.
LastParams == {"", "1", "60", "abc"}

\* ------------------------------------------------------------ the program
NoResult == [panic |-> FALSE, ver |-> 0, log |-> "", aps |-> <<>>, clients |-> <<>>]
NilSlice == [data |-> <<>>, len |-> 0, ver |-> 0]
NoResponse ==
  [handler |-> "none", lastParam |-> "", now |-> 0, last |-> 0,
   errorPage |-> FALSE, aborted |-> FALSE, garbage |-> FALSE,
   read |-> <<>>, null |-> FALSE, items |-> <<>>]
NoCall == [op |-> "none", mins |-> 0, now |-> 0, clients |-> <<>>, result |-> NoResult]

\* The state before init() runs; the dump file holds any content.
Init ==
  /\ file \in {FileOf(1, d) : d \in Dumps}
  /\ ouidb = << >>
  /\ ciddb = << >>
  /\ proc = "running"
  /\ mainpc = "init"
  /\ tpc = [t \in Tasks |-> "none"]
  /\ tres = [t \in Tasks |-> NoResult]
  /\ pending = [t \in Tasks |-> {}]
  /\ apsFound = NilSlice
  /\ clientsFound = NilSlice
  /\ resp = NoResponse
  /\ call = NoCall

\* init(): ouidb = parseOui(); ciddb = parseCid().
init(ouiFile, cidFile) ==
  /\ proc = "running"
  /\ mainpc = "init"
  /\ LET oui == parseOui(ouiFile)
         cid == parseCid(cidFile)
     IN  IF oui.panic
         THEN /\ proc' = "crashed"
              /\ UNCHANGED <<ouidb, ciddb, mainpc>>
         ELSE IF cid.panic
              THEN /\ proc' = "crashed"
                   /\ ouidb' = oui.map
                   /\ UNCHANGED <<ciddb, mainpc>>
              ELSE /\ ouidb' = oui.map
                   /\ ciddb' = cid.map
                   /\ mainpc' = "main"
                   /\ UNCHANGED proc
  /\ UNCHANGED <<file, tpc, tres, pending, apsFound, clientsFound, resp, call>>

\* main: go getData().
main ==
  /\ proc = "running"
  /\ mainpc = "main"
  /\ mainpc' = "serve"
  /\ tpc' = [tpc EXCEPT ![1] = "parse"]
  /\ UNCHANGED <<file, ouidb, ciddb, proc, tres, pending, apsFound,
                 clientsFound, resp, call>>

\* serve: go getData(), then ListenAndServe.
serve ==
  /\ proc = "running"
  /\ mainpc = "serve"
  /\ mainpc' = "listen"
  /\ tpc' = [tpc EXCEPT ![2] = "parse"]
  /\ UNCHANGED <<file, ouidb, ciddb, proc, tres, pending, apsFound,
                 clientsFound, resp, call>>

\* getData, the call: parseAirodumpCsv(*csvFile).  A panic in a goroutine
\* ends the process.
getDataParse(t) ==
  /\ proc = "running"
  /\ tpc[t] = "parse"
  /\ LET r == parseAirodumpCsv(file) IN
       IF r.panic
       THEN /\ proc' = "crashed"
            /\ UNCHANGED <<tpc, tres, pending>>
       ELSE /\ tres' = [tres EXCEPT ![t] = r]
            /\ tpc' = [tpc EXCEPT ![t] = "storeAps"]
            /\ pending' = [pending EXCEPT ![t] = {"data", "len"}]
            /\ UNCHANGED proc
  /\ UNCHANGED <<file, ouidb, ciddb, mainpc, apsFound, clientsFound, resp, call>>

\* One word of a slice header stored.
StoreWord(g, w, list, ver) ==
  IF w = "data" THEN [g EXCEPT !.data = list, !.ver = ver]
  ELSE [g EXCEPT !.len = Len(list), !.ver = ver]

\* getData, the assignment apsFound, clientsFound = ...: no lock guards it, so
\* each slice header is stored word by word, in an order the build chooses,
\* apsFound before clientsFound.
getDataStore(t, w) ==
  /\ proc = "running"
  /\ tpc[t] \in {"storeAps", "storeClients"}
  /\ w \in pending[t]
  /\ IF tpc[t] = "storeAps"
     THEN /\ apsFound' = StoreWord(apsFound, w, tres[t].aps, tres[t].ver)
          /\ UNCHANGED clientsFound
     ELSE /\ clientsFound' = StoreWord(clientsFound, w, tres[t].clients, tres[t].ver)
          /\ UNCHANGED apsFound
  /\ IF pending[t] # {w}
     THEN /\ pending' = [pending EXCEPT ![t] = pending[t] \ {w}]
          /\ UNCHANGED <<tpc, tres>>
     ELSE IF tpc[t] = "storeAps"
          THEN /\ pending' = [pending EXCEPT ![t] = {"data", "len"}]
               /\ tpc' = [tpc EXCEPT ![t] = "storeClients"]
               /\ UNCHANGED tres
          ELSE /\ pending' = [pending EXCEPT ![t] = {}]
               /\ tpc' = [tpc EXCEPT ![t] = "sleep"]
               /\ tres' = [tres EXCEPT ![t] = NoResult]
  /\ UNCHANGED <<file, ouidb, ciddb, proc, mainpc, resp, call>>

\* getData: time.Sleep(10 * time.Second) returns.
getDataWake(t) ==
  /\ proc = "running"
  /\ tpc[t] = "sleep"
  /\ tpc' = [tpc EXCEPT ![t] = "parse"]
  /\ UNCHANGED <<file, ouidb, ciddb, proc, mainpc, tres, pending, apsFound,
                 clientsFound, resp, call>>

\* airodump-ng rewrites the dump file (or the file goes away).
WriteFile(d) ==
  /\ proc = "running"
  /\ file.ver < MaxVersions
  /\ file' = FileOf(file.ver + 1, d)
  /\ UNCHANGED <<ouidb, ciddb, proc, mainpc, tpc, tres, pending, apsFound,
                 clientsFound, resp, call>>

\* What a read of the slice g can give.  A header whose len exceeds its
\* array is a read past the array: garbage, a panic or a fatal fault.
ReadSlice(g) ==
  IF g.len <= Len(g.data)
  THEN {[outcome |-> "ok", list |-> SubSeq(g.data, 1, g.len)]}
  ELSE {[outcome |-> o, list |-> g.data] : o \in {"garbage", "panic", "fatal"}}

\* json.MarshalIndent of a slice: null for the nil slice.
MarshalIndent(list) == [null |-> list = <<>>, items |-> list]

\* The handler clients.  errorTemplate: public/error.html parses; if not, t
\* is nil and t.Execute panics, which net/http recovers, ending the request.
clients(lastParam, now, errorTemplate) ==
  /\ proc = "running"
  /\ mainpc = "listen"
  /\ LET lp   == IF lastParam = "" THEN DefaultLast ELSE lastParam
         last == Atoi(lp)
         base == [NoResponse EXCEPT !.handler = "clients", !.lastParam = lastParam,
                                    !.now = now, !.last = last.val,
                                    !.errorPage = last.err]
     IN  IF last.err /\ ~errorTemplate
         THEN /\ resp' = [base EXCEPT !.aborted = TRUE]
              /\ UNCHANGED proc
         ELSE \E r \in ReadSlice(clientsFound) :
                IF r.outcome = "fatal"
                THEN /\ proc' = "crashed"
                     /\ UNCHANGED resp
                ELSE IF r.outcome = "panic"
                     THEN /\ resp' = [base EXCEPT !.aborted = TRUE]
                          /\ UNCHANGED proc
                     ELSE LET str == MarshalIndent(filterByLastSeen(r.list, last.val, now))
                          IN  /\ resp' = [base EXCEPT !.garbage = (r.outcome = "garbage"),
                                                       !.read = r.list,
                                                       !.null = str.null,
                                                       !.items = str.items]
                              /\ UNCHANGED proc
  /\ UNCHANGED <<file, ouidb, ciddb, mainpc, tpc, tres, pending, apsFound,
                 clientsFound, call>>

\* The handler accessPoints.
accessPoints ==
  /\ proc = "running"
  /\ mainpc = "listen"
  /\ \E r \in ReadSlice(apsFound) :
       IF r.outcome = "fatal"
       THEN /\ proc' = "crashed"
            /\ UNCHANGED resp
       ELSE IF r.outcome = "panic"
            THEN /\ resp' = [NoResponse EXCEPT !.handler = "aps", !.aborted = TRUE]
                 /\ UNCHANGED proc
            ELSE LET str == MarshalIndent(r.list)
                 IN  /\ resp' = [NoResponse EXCEPT !.handler = "aps",
                                                   !.garbage = (r.outcome = "garbage"),
                                                   !.read = r.list,
                                                   !.null = str.null,
                                                   !.items = str.items]
                     /\ UNCHANGED proc
  /\ UNCHANGED <<file, ouidb, ciddb, mainpc, tpc, tres, pending, apsFound,
                 clientsFound, call>>

\* The refresh side of the program: start-up, the two getData goroutines and
\* the capture tool rewriting the dump file.
Refresh ==
  \/ main
  \/ serve
  \/ \E t \in Tasks : getDataParse(t)
  \/ \E t \in Tasks, w \in {"data", "len"} : getDataStore(t, w)
  \/ \E t \in Tasks : getDataWake(t)

Next ==
  \/ \E ouiFile \in OuiFiles, cidFile \in CidFiles : init(ouiFile, cidFile)
  \/ Refresh
  \/ \E d \in Dumps : WriteFile(d)

Spec == Init /\ [][Next]_vars

\* The program serving queries while it refreshes from a dump file that does
\* not change.
NextQuery ==
  \/ init(OuiGood, CidGood)
  \/ Refresh
  \/ \E lastParam \in LastParams, now \in Nows, errorTemplate \in BOOLEAN :
       clients(lastParam, now, errorTemplate)
  \/ accessPoints

SpecQuery == Init /\ [][NextQuery]_vars

\* ------------------------------------------------- the parser, called alone
\* Access-point sections (header first) and client sections of at most
\* MaxRows data rows.
APSections     == {<<>>} \cup {<<APHeader>> \o rows : rows \in SeqsUpTo(APRows, MaxRows)}
ClientSections == SeqsUpTo(ClientRows, MaxRows)

\* The dumps handed to the parser: every access-point section beside a few
\* client sections, every client section beside a few access-point sections,
\* with the marker line and a few without; and the unreadable file.
FewAPSections ==
  {<<APHeader>>, <<APHeader, APGood1>>, <<APHeader, APGood1, APShort, APGood2>>}
FewClientSections == {<<>>, <<CGood1, CGood2>>, <<CGood1, CShort, CGood2>>}
ParseInputs ==
  {Content(TRUE, TRUE, a, c) : a \in APSections, c \in FewClientSections}
  \cup {Content(TRUE, TRUE, a, c) : a \in FewAPSections, c \in ClientSections}
  \cup {Content(TRUE, FALSE, a, <<>>) : a \in {<<>>, <<APHeader, APGood1>>}}
  \cup {DumpGone}

\* The registries init() can leave behind.
LoadedOui == {parseOui(f).map : f \in {g \in OuiFiles : ~parseOui(g).panic}}
LoadedCid == {parseCid(f).map : f \in {g \in CidFiles : ~parseCid(g).panic}}

InitParse ==
  /\ file \in {FileOf(1, d) : d \in ParseInputs}
  /\ ouidb \in LoadedOui
  /\ ciddb \in LoadedCid
  /\ proc = "running"
  /\ mainpc = "main"
  /\ tpc = [t \in Tasks |-> "none"]
  /\ tres = [t \in Tasks |-> NoResult]
  /\ pending = [t \in Tasks |-> {}]
  /\ apsFound = NilSlice
  /\ clientsFound = NilSlice
  /\ resp = NoResponse
  /\ call = NoCall

\* A call of parseAirodumpCsv on the dump file.
CallParse ==
  /\ call.op = "none"
  /\ call' = [NoCall EXCEPT !.op = "parse", !.result = parseAirodumpCsv(file)]
  /\ UNCHANGED <<file, ouidb, ciddb, proc, mainpc, tpc, tres, pending,
                 apsFound, clientsFound, resp>>

\* Windows and instants for a call of filterByLastSeen.
FilterMins == {-1, 0, 1, 60}
FilterNows == {3599, 3600, 3659, 3660, 3661, 7199, 7200, 7201}

\* A call of filterByLastSeen on the clients parsed from the dump file.
CallFilter(mins, now) ==
  /\ call.op = "parse"
  /\ ~call.result.panic
  /\ call' = [op |-> "filter", mins |-> mins, now |-> now,
              clients |-> call.result.clients,
              result |-> [NoResult EXCEPT
                  !.clients = filterByLastSeen(call.result.clients, mins, now)]]
  /\ UNCHANGED <<file, ouidb, ciddb, proc, mainpc, tpc, tres, pending,
                 apsFound, clientsFound, resp>>

SpecParse == InitParse /\ [][CallParse]_vars

\* ------------------------------------------------- the filter, called alone
\* The clients the filter is handed: those parsed from rows whose address
\* is whole.
FilterRows == {CGood1, CGood2, CGood3, CGood4, CBadTime}

InitFilter ==
  /\ file \in {FileOf(1, Content(TRUE, TRUE, <<APHeader>>, c)) :
                 c \in SeqsUpTo(FilterRows, MaxRows)}
  /\ ouidb = parseOui(OuiGood).map
  /\ ciddb = parseCid(CidGood).map
  /\ proc = "running"
  /\ mainpc = "main"
  /\ tpc = [t \in Tasks |-> "none"]
  /\ tres = [t \in Tasks |-> NoResult]
  /\ pending = [t \in Tasks |-> {}]
  /\ apsFound = NilSlice
  /\ clientsFound = NilSlice
  /\ resp = NoResponse
  /\ call = NoCall

NextFilter ==
  \/ CallParse
  \/ \E mins \in FilterMins, now \in FilterNows : CallFilter(mins, now)

SpecFilter == InitFilter /\ [][NextFilter]_vars

\* ------------------------------------------------------------------ claims
\* What a reader gets from a slice: its array and its length.
Visible(g) == [data |-> g.data, len |-> g.len]

\* C1: a refresh cycle that fails because the dump file is unreadable
\* publishes nothing: no store of the goroutine running that cycle changes
\* the access-point list or the client list readers see (stated for a
\* goroutine that refreshes alone, so that no other writer is involved).
C1_FailedCycleKeepsSnapshot ==
  [][\A t \in Tasks :
       (/\ tres[t].log = "File not found"
        /\ tpc[t] \in {"storeAps", "storeClients"}
        /\ \A u \in Tasks \ {t} : tpc[u] = "none"
        /\ pending'[t] # pending[t])
       => (/\ Visible(apsFound') = Visible(apsFound)
           /\ Visible(clientsFound') = Visible(clientsFound))]_vars

\* C2: whenever readers are served, the access-point list and the client
\* list they can read are whole and come from the same refresh cycle.
C2_SnapshotFromOneCycle ==
  (proc = "running" /\ mainpc = "listen")
  => (/\ apsFound.len = Len(apsFound.data)
      /\ clientsFound.len = Len(clientsFound.data)
      /\ apsFound.ver = clientsFound.ver)

\* C3: at no time do two refresh loops exist.
C3_SingleRefreshTask ==
  Cardinality({t \in Tasks : tpc[t] # "none"}) <= 1

\* C4: no input makes the process terminate: once a refresh loop runs, the
\* process runs, so every cycle is followed by the sleep and another cycle.
C4_ProcessNeverTerminates ==
  (\E t \in Tasks : tpc[t] # "none") => proc = "running"

\* A column that time.ParseInLocation / strconv.Atoi accepts once trimmed.
TimeOK(s) == TrimSpace(s) \in DOMAIN TimeLiterals
IntOK(s)  == TrimSpace(s) \in DOMAIN IntLiterals
\* An address of six byte pairs whose first byte is two hex digits.
AddressOK(mac) ==
  Len(mac) = 17 /\ mac[1] \in DOMAIN HexDigits /\ mac[2] \in DOMAIN HexDigits
\* Rows all of whose parsed columns parse.
ParsableAPRow(r) ==
  Len(r) >= 14 /\ TimeOK(r[2]) /\ TimeOK(r[3]) /\ IntOK(r[4]) /\ IntOK(r[9])
ParsableClientRow(r) ==
  /\ Len(r) >= 7
  /\ AddressOK(r[1])
  /\ TimeOK(r[2]) /\ TimeOK(r[3]) /\ IntOK(r[4]) /\ IntOK(r[5])
\* The data rows of the access-point section of f.
APDataRows(f) == IF f.aps = <<>> THEN <<>> ELSE Tail(f.aps)
\* parseAirodumpCsv has been called on the dump file and has returned.
Parsed == call.op = "parse" /\ file.readable /\ file.marker /\ ~call.result.panic

\* C5: a row whose timestamp, integer column or address first byte does not
\* parse contributes no record: the lists returned hold one record for each
\* row all of whose columns parse, and no other.
C5_UnparsableRowsSkipped ==
  Parsed =>
    /\ Len(call.result.clients) = Len(SelectSeq(file.clients, ParsableClientRow))
    /\ Len(call.result.aps) = Len(SelectSeq(APDataRows(file), ParsableAPRow))

\* A dump with the marker line, the access-point header and only rows all
\* of whose columns parse.
WellFormedDump(f) ==
  /\ f.readable /\ f.marker
  /\ f.aps # <<>> /\ Head(f.aps) = APHeader
  /\ \A i \in 1..Len(APDataRows(f)) : ParsableAPRow(APDataRows(f)[i])
  /\ \A i \in 1..Len(f.clients) : ParsableClientRow(f.clients[i])

\* C6: for a well-formed dump with A access-point data rows and C client
\* rows, parse returns exactly A access points and exactly C clients.
C6_WellFormedCounts ==
  (call.op = "parse" /\ WellFormedDump(file)) =>
    /\ ~call.result.panic
    /\ Len(call.result.aps) = Len(file.aps) - 1
    /\ Len(call.result.clients) = Len(file.clients)

C6_Witness ==
  /\ call.op = "parse" /\ WellFormedDump(file)
  /\ Len(file.aps) = 4 /\ Len(file.clients) = 2
  /\ Len(call.result.aps) = 3 /\ Len(call.result.clients) = 2

\* A dump each of whose rows is either well-formed or short.
ShortOrWellFormed(f) ==
  /\ f.readable /\ f.marker /\ f.aps # <<>>
  /\ \A i \in 1..Len(APDataRows(f)) :
       Len(APDataRows(f)[i]) < 14 \/ ParsableAPRow(APDataRows(f)[i])
  /\ \A i \in 1..Len(f.clients) :
       Len(f.clients[i]) < 7 \/ ParsableClientRow(f.clients[i])

\* The addresses of the records a section's well-formed rows must give.
Addresses(rows) == [i \in 1..Len(rows) |-> ReplaceColons(rows[i][1])]

\* C7: a client row of fewer than 7 columns and an access-point row of
\* fewer than 14 are skipped without ending the parse: the records returned
\* are those of the section's well-formed rows, all of them, in order.
C7_ShortRowsSkipped ==
  (call.op = "parse" /\ ShortOrWellFormed(file)) =>
    /\ ~call.result.panic
    /\ [i \in 1..Len(call.result.clients) |-> call.result.clients[i].MAC]
         = Addresses(SelectSeq(file.clients, ParsableClientRow))
    /\ [i \in 1..Len(call.result.aps) |-> call.result.aps[i].MAC]
         = Addresses(SelectSeq(APDataRows(file), ParsableAPRow))

C7_Witness ==
  /\ call.op = "parse"
  /\ file.clients = <<CGood1, CShort, CGood2>>
  /\ file.aps = <<APHeader, APGood1, APShort, APGood2>>
  /\ Len(call.result.clients) = 2
  /\ Len(call.result.aps) = 2

\* C8: the organization of every parsed client is decided by the
\* universal/local bit of its first byte alone: bit 1, the CID table on the
\* 8-character prefix, "LOCAL" on a miss; bit 0, the OUI table, "" on a miss.
C8_OrganizationByLocalBit ==
  Parsed =>
    \A i \in 1..Len(call.result.clients) :
      LET c      == call.result.clients[i]
          prefix == SubSeq(c.MAC, 1, 8)
          bit    == (HexDigits[c.MAC[2]] \div 2) % 2
      IN  AddressOK(c.MAC) =>
            /\ bit = 1 => c.Organization =
                 IF prefix \in DOMAIN ciddb THEN TrimSpace(ciddb[prefix]) ELSE "LOCAL"
            /\ bit = 0 => c.Organization =
                 IF prefix \in DOMAIN ouidb THEN TrimSpace(ouidb[prefix]) ELSE ""

\* 02-00-00-00-00-01 read as local ("LOCAL", though the OUI table lists its
\* prefix) beside 00-1A-2B-00-00-01 read as global.
C8_Witness ==
  /\ Parsed
  /\ ouidb = parseOui(OuiGood).map /\ ciddb = parseCid(CidGood).map
  /\ Len(call.result.clients) = 2
  /\ call.result.clients[1].MAC = ReplaceColons(AddrLocal)
  /\ call.result.clients[1].Organization = "LOCAL"
  /\ call.result.clients[2].MAC = ReplaceColons(AddrGlobal)
  /\ call.result.clients[2].Organization = "Acme Corp"

\* The start of the window of the last call of filterByLastSeen.
WindowStart == call.now - call.mins * Minute

C10_DefaultWindow ==
  (/\ resp.handler = "clients"
   /\ resp.lastParam \notin DOMAIN IntLiterals
   /\ ~resp.aborted)
  => resp.items = SelectSeq(resp.read,
                            LAMBDA c : c.LastSeen > resp.now - 60 * Minute)

\* C11: before the first refresh cycle has stored anything, a read of the
\* access-point list and a read of the client list each give an empty
\* list, not null.
C11_EmptyNotNull ==
  (/\ resp.handler \in {"aps", "clients"}
   /\ ~resp.aborted
   /\ apsFound.ver = 0 /\ clientsFound.ver = 0)
  => ~resp.null

\* The snapshot shows the parse of one version of the dump file, whole:
\* both lists carry that version, hold records, and no goroutine is still
\* storing it.
ShowsOneVersion ==
  /\ apsFound.ver = clientsFound.ver
  /\ apsFound.ver >= 1
  /\ apsFound.data # <<>> /\ clientsFound.data # <<>>
  /\ apsFound.len = Len(apsFound.data)
  /\ clientsFound.len = Len(clientsFound.data)
  /\ \A t \in Tasks :
       tpc[t] \in {"storeAps", "storeClients"} => tres[t].ver # apsFound.ver

\* Every result a goroutine is still storing holds records of both kinds.
PendingResultsHoldRecords ==
  \A t \in Tasks :
    tpc[t] \in {"storeAps", "storeClients"}
      => tres[t].aps # <<>> /\ tres[t].clients # <<>>

\* C12: the published snapshot never goes back in time: once it shows the
\* parse of a version of the dump file, no step makes either list that of
\* an older version.
C12_SnapshotNeverGoesBack ==
  [][(ShowsOneVersion /\ PendingResultsHoldRecords) =>
       (/\ apsFound'.ver >= apsFound.ver
        /\ clientsFound'.ver >= clientsFound.ver)]_vars

====
